---- MODULE Spec2Model ----
(***************************************************************************)
(* Employee / leave record store of main.py: two JSON files that every     *)
(* handler loads whole, scans, and (for writers) rewrites whole.           *)
(*                                                                         *)
(* A handler is modelled as a process that takes one step per access to a  *)
(* file: the code between two file accesses touches only the handler's     *)
(* own locals.  Spec runs one call at a time; ConcSpec lets the calls of   *)
(* several workers interleave at those steps; FaultSpec and DamageSpec     *)
(* let the files go missing or bad between the calls of one worker.        *)
(***************************************************************************)
EXTENDS Integers, Sequences, FiniteSets, TLC

VARIABLES
    EMPLOYEE_FILE,  \* contents of employees.json
    LEAVE_FILE,     \* contents of leave.json
    pc,             \* per worker: where its current call stands
    req,            \* per worker: the call and its arguments
    employees,      \* per worker: the handler's local `employees`
    leaves,         \* per worker: the handler's local `leaves`
    resp,           \* per worker: what the last finished call returned or raised
    pre,            \* history: both files as worker Main found them when its
                    \* latest call began (kept where Main works alone)
    calls           \* history: number of calls taken so far (counted in ConcSpec)

vars == <<EMPLOYEE_FILE, LEAVE_FILE, pc, req, employees, leaves, resp, pre, calls>>
files == <<EMPLOYEE_FILE, LEAVE_FILE>>

---------------------------------------------------------------------------
(* Bounds *)

MaxEmployees == 2   \* longest employees list a call may extend to
MaxLeaves == 2      \* longest leaves list a call may extend to
MaxCalls == 4       \* calls that the workers of ConcSpec take in one run

Procs == {"w1", "w2"}
Main == "w1"

EmpIds == {"E1", "E2"}
LeaveIds == {"L1", "L2"}
\* status strings a caller sends to PUT /leaves/{leave_id}; "xyz" is outside
\* the documented Approved / Cancelled / Rejected
Statuses == {"Approved", "xyz"}
\* leave_status values a caller sends in the body of POST /employees/leaves
\* (omitting the field gives the default, "Pending")
AppliedStatuses == {"Pending", "Approved"}

---------------------------------------------------------------------------
(* Records *)

\* class Employee: two request bodies per emp_id that differ in every other field
Employee(id, variant) ==
    IF variant = 1
    THEN [emp_id |-> id, emp_name |-> "A", mail_id |-> "a@x.com",
          emp_role |-> "dev", emp_dept |-> "eng",
          date_of_joining |-> "2024-01-01",
          leaves |-> [sick |-> 24, casual |-> 12]]
    ELSE [emp_id |-> id, emp_name |-> "B", mail_id |-> "b@y.org",
          emp_role |-> "qa", emp_dept |-> "ops",
          date_of_joining |-> "2023-06-30",
          leaves |-> [sick |-> 10, casual |-> 5]]

EmployeeInputs == {Employee(id, v) : id \in EmpIds, v \in {1, 2}}

\* class Leave: leave_type is free text, the dates are unvalidated strings
Leave(id, emp, variant, status) ==
    IF variant = 1
    THEN [leave_id |-> id, employee_id |-> emp, leave_type |-> "sick",
          from_date |-> "2024-02-01", to_date |-> "2024-02-02",
          leave_status |-> status]
    ELSE [leave_id |-> id, employee_id |-> emp, leave_type |-> "vacation",
          from_date |-> "2024-03-05", to_date |-> "2024-03-01",
          leave_status |-> status]

\* request bodies that differ in what the handlers read: leave_id,
\* employee_id, leave_status
PlainLeaveInputs ==
    {Leave(id, emp, 1, s) : id \in LeaveIds, emp \in EmpIds, s \in AppliedStatuses}

\* ... and bodies of another leave_type whose to_date precedes their from_date;
\* no handler reads these fields, so only Spec draws them
LeaveInputs ==
    PlainLeaveInputs \cup {Leave("L1", emp, 2, "Pending") : emp \in EmpIds}

---------------------------------------------------------------------------
(* Files *)

Missing == [state |-> "missing", data |-> <<>>]
\* the file after its text was cut short: its first record is still there,
\* but the whole is no JSON document
Malformed(file) ==
    [state |-> "malformed",
     data |-> IF file.data = <<>> THEN <<>> ELSE <<file.data[1]>>]
\* the file holding bytes that are no text in the encoding open() reads with
Undecodable == [state |-> "undecodable", data |-> <<>>]
Written(data) == [state |-> "ok", data |-> data]

\* load_data raises instead of returning: the except clause names
\* json.JSONDecodeError and FileNotFoundError only, so the UnicodeDecodeError
\* that f.read() raises inside json.load leaves load_data and the handler
load_data_raises(file) == file.state = "undecodable"

\* load_data, when it returns: a missing file and a file that is no JSON
\* document read as the empty list.  The records hold only strings, integers
\* and string-keyed dicts, which json.dump / json.load give back unchanged.
load_data(file) ==
    IF file.state = "missing" THEN <<>>
    ELSE IF file.state = "malformed" THEN <<>>
    ELSE file.data

\* save_data that keeps the records of the file that `data` lacks
save_data_merge(file, data) ==
    LET old == load_data(file)
        Kept(r) == \A i \in 1..Len(data) : data[i] # r
    IN [state |-> "ok", data |-> SelectSeq(old, Kept) \o data]

\* save_data that opens the file for exclusive creation: an existing file stays
save_data_if_absent(file, data) ==
    IF file.state = "missing" THEN [state |-> "ok", data |-> data] ELSE file

\* save_data: the file becomes the serialisation of `data`, whatever it held
save_data(file, data) == Written(data)

---------------------------------------------------------------------------
(* Pure parts of the handlers *)

\* the scan compares the wrong field
any_emp_by_name(emps, emp_id) == \E i \in 1..Len(emps) : emps[i].emp_name = emp_id

\* the scan only asks whether there are employees at all
any_emp_nonempty(emps, emp_id) == Len(emps) > 0

\* any(e["emp_id"] == emp_id for e in employees)
any_emp(emps, emp_id) == \E i \in 1..Len(emps) : emps[i].emp_id = emp_id

\* the lookup starts at the second record
first_emp_skip_first(emps, emp_id) ==
    IF \E i \in 2..Len(emps) : emps[i].emp_id = emp_id
    THEN CHOOSE i \in 2..Len(emps) :
            /\ emps[i].emp_id = emp_id
            /\ \A j \in 2..(i-1) : emps[j].emp_id # emp_id
    ELSE 0

\* position that next((x for x in seq if P(x)), None) yields, 0 for None
first_emp(emps, emp_id) ==
    IF \E i \in 1..Len(emps) : emps[i].emp_id = emp_id
    THEN CHOOSE i \in 1..Len(emps) :
            /\ emps[i].emp_id = emp_id
            /\ \A j \in 1..(i-1) : emps[j].emp_id # emp_id
    ELSE 0

\* next(..., None) replaced by a lookup that falls back on the first record
first_leave_or_first(lvs, leave_id) ==
    IF \E i \in 1..Len(lvs) : lvs[i].leave_id = leave_id
    THEN CHOOSE i \in 1..Len(lvs) :
            /\ lvs[i].leave_id = leave_id
            /\ \A j \in 1..(i-1) : lvs[j].leave_id # leave_id
    ELSE IF lvs # <<>> THEN 1 ELSE 0

first_leave(lvs, leave_id) ==
    IF \E i \in 1..Len(lvs) : lvs[i].leave_id = leave_id
    THEN CHOOSE i \in 1..Len(lvs) :
            /\ lvs[i].leave_id = leave_id
            /\ \A j \in 1..(i-1) : lvs[j].leave_id # leave_id
    ELSE 0

\* the filter builds its result back to front
RECURSIVE emp_leaves_reversed(_, _)
emp_leaves_reversed(lvs, emp_id) ==
    IF lvs = <<>> THEN <<>>
    ELSE IF Head(lvs).employee_id = emp_id
         THEN emp_leaves_reversed(Tail(lvs), emp_id) \o <<Head(lvs)>>
         ELSE emp_leaves_reversed(Tail(lvs), emp_id)

\* [l for l in leaves if l['employee_id'] == emp_id]
RECURSIVE emp_leaves(_, _)
emp_leaves(lvs, emp_id) ==
    IF lvs = <<>> THEN <<>>
    ELSE IF Head(lvs).employee_id = emp_id
         THEN <<Head(lvs)>> \o emp_leaves(Tail(lvs), emp_id)
         ELSE emp_leaves(Tail(lvs), emp_id)

\* the status is set on every record that carries the leave_id
set_status_all(lvs, i, status) ==
    [j \in 1..Len(lvs) |->
        IF lvs[j].leave_id = lvs[i].leave_id
        THEN [lvs[j] EXCEPT !.leave_status = status]
        ELSE lvs[j]]

\* the status is set only on a leave that is still "Pending"
set_status_if_pending(lvs, i, status) ==
    IF lvs[i].leave_status = "Pending"
    THEN [lvs EXCEPT ![i].leave_status = status]
    ELSE lvs

\* leave["leave_status"] = status, on the record found in the local list
set_status(lvs, i, status) == [lvs EXCEPT ![i].leave_status = status]

---------------------------------------------------------------------------
(* Requests and responses *)

NoReq == [op |-> "none", id |-> "", status |-> "", body |-> <<>>]
Req(op, id, status, body) == [op |-> op, id |-> id, status |-> status, body |-> <<body>>]

NoResp == [status_code |-> 0, detail |-> "", total |-> 0, items |-> <<>>]
\* return {"status_code": 200, "message": ...}
Ok(message) == [status_code |-> 200, detail |-> message, total |-> 0, items |-> <<>>]
\* return {..., "total_...": len(items), "...": items}
Listing(message, items) ==
    [status_code |-> 200, detail |-> message, total |-> Len(items), items |-> items]
\* raise HTTPException(status_code=code, detail=detail)
HTTPException(code, detail) ==
    [status_code |-> code, detail |-> detail, total |-> 0, items |-> <<>>]

DuplicateIdentifier == HTTPException(400, "Employee ID already exists.")
EmployeeNotFound == HTTPException(404, "Employee not found.")
LeaveNotFound == HTTPException(404, "Leave not found.")
OwningEmployeeNotFound == HTTPException(404, "Employee not found for this leave.")
\* what the framework answers when a handler ends with an exception that is
\* no HTTPException
InternalServerError == HTTPException(500, "Internal Server Error")

---------------------------------------------------------------------------
(* Steps common to every handler *)

Init ==
    /\ EMPLOYEE_FILE = Missing
    /\ LEAVE_FILE = Missing
    /\ pc = [p \in Procs |-> "idle"]
    /\ req = [p \in Procs |-> NoReq]
    /\ employees = [p \in Procs |-> <<>>]
    /\ leaves = [p \in Procs |-> <<>>]
    /\ resp = [p \in Procs |-> NoResp]
    /\ pre = files
    /\ calls = 0

Free(p) == pc[p] \in {"idle", "done"}

\* the endpoint is entered: the request is bound, the previous call's locals are gone
Enter(p, r) ==
    /\ Free(p)
    /\ req' = [req EXCEPT ![p] = r]
    /\ pre' = IF p = Main /\ calls = 0 THEN files ELSE pre

\* the handler returns or raises: its locals die with it
Return(p, r) ==
    /\ pc' = [pc EXCEPT ![p] = "done"]
    /\ resp' = [resp EXCEPT ![p] = r]
    /\ employees' = [employees EXCEPT ![p] = <<>>]
    /\ leaves' = [leaves EXCEPT ![p] = <<>>]

Goto(p, label) ==
    /\ pc' = [pc EXCEPT ![p] = label]
    /\ resp' = [resp EXCEPT ![p] = NoResp]

---------------------------------------------------------------------------
(* POST /employees *)

\* lines 73-76: load, then the duplicate scan
add_employee(p, employee) ==
    /\ Enter(p, Req("create", employee.emp_id, "", employee))
    /\ IF load_data_raises(EMPLOYEE_FILE)
       THEN Return(p, InternalServerError)
       ELSE LET loaded == load_data(EMPLOYEE_FILE) IN
        /\ any_emp(loaded, employee.emp_id) \/ Len(loaded) < MaxEmployees
        /\ IF any_emp(loaded, employee.emp_id)
           THEN Return(p, DuplicateIdentifier)
           ELSE /\ Goto(p, "add_save")
                /\ employees' = [employees EXCEPT ![p] = Append(loaded, employee)]
                /\ UNCHANGED leaves
    /\ UNCHANGED files

\* lines 77-80: employees.append(...) was done on the local list; write it out
add_employee_save(p) ==
    /\ pc[p] = "add_save"
    /\ EMPLOYEE_FILE' = save_data(EMPLOYEE_FILE, employees[p])
    /\ Return(p, Ok("Employee created successfully"))
    /\ UNCHANGED <<LEAVE_FILE, req, pre>>

---------------------------------------------------------------------------
(* GET /employees, GET /employees/{emp_id} *)

\* a listing that creates employees.json when it finds none
fetch_all_employees_creating(p) ==
    /\ Enter(p, Req("list_all", "", "", <<>>))
    /\ LET loaded == load_data(EMPLOYEE_FILE) IN
        /\ IF load_data_raises(EMPLOYEE_FILE)
           THEN Return(p, InternalServerError)
           ELSE IF loaded = <<>>
           THEN Return(p, Listing("", <<>>))
           ELSE Return(p, Listing("Employee data fetched successfully", loaded))
        /\ EMPLOYEE_FILE' = IF EMPLOYEE_FILE.state = "missing"
                            THEN save_data(EMPLOYEE_FILE, loaded)
                            ELSE EMPLOYEE_FILE
    /\ UNCHANGED LEAVE_FILE

fetch_all_employees(p) ==
    /\ Enter(p, Req("list_all", "", "", <<>>))
    /\ IF load_data_raises(EMPLOYEE_FILE)
       THEN Return(p, InternalServerError)
       ELSE LET loaded == load_data(EMPLOYEE_FILE) IN
        IF loaded = <<>>
        THEN Return(p, Listing("", <<>>))
        ELSE Return(p, Listing("Employee data fetched successfully", loaded))
    /\ UNCHANGED files

fetch_employee_by_id(p, emp_id) ==
    /\ Enter(p, Req("fetch_by_id", emp_id, "", <<>>))
    /\ LET loaded == load_data(EMPLOYEE_FILE)
           i == first_emp(loaded, emp_id) IN
        IF load_data_raises(EMPLOYEE_FILE)
        THEN Return(p, InternalServerError)
        ELSE IF i = 0
        THEN Return(p, EmployeeNotFound)
        ELSE Return(p, Listing("", <<loaded[i]>>))
    /\ UNCHANGED files

---------------------------------------------------------------------------
(* POST /employees/leaves *)

\* lines 115-118: load the employees, check the owner exists
apply_employee_leave(p, leave) ==
    /\ Enter(p, Req("apply", leave.leave_id, "", leave))
    /\ IF load_data_raises(EMPLOYEE_FILE)
       THEN Return(p, InternalServerError)
       ELSE LET loaded == load_data(EMPLOYEE_FILE) IN
        /\ ~any_emp(loaded, leave.employee_id)
              \/ Len(load_data(LEAVE_FILE)) < MaxLeaves
        /\ IF ~any_emp(loaded, leave.employee_id)
           THEN Return(p, EmployeeNotFound)
           ELSE /\ Goto(p, "apply_load")
                /\ employees' = [employees EXCEPT ![p] = loaded]
                /\ UNCHANGED leaves
    /\ UNCHANGED files

\* the new leave is put in front of the loaded list
apply_employee_leave_load_front(p) ==
    /\ pc[p] = "apply_load"
    /\ Len(load_data(LEAVE_FILE)) < MaxLeaves
    /\ IF load_data_raises(LEAVE_FILE)
       THEN Return(p, InternalServerError)
       ELSE /\ leaves' = [leaves EXCEPT
                            ![p] = <<req[p].body[1]>> \o load_data(LEAVE_FILE)]
            /\ Goto(p, "apply_save")
            /\ UNCHANGED employees
    /\ UNCHANGED <<files, req, pre>>

\* lines 119-120: load the leaves, append leave.dict() to the local list
apply_employee_leave_load(p) ==
    /\ pc[p] = "apply_load"
    /\ Len(load_data(LEAVE_FILE)) < MaxLeaves
    /\ IF load_data_raises(LEAVE_FILE)
       THEN Return(p, InternalServerError)
       ELSE /\ leaves' = [leaves EXCEPT
                            ![p] = Append(load_data(LEAVE_FILE), req[p].body[1])]
            /\ Goto(p, "apply_save")
            /\ UNCHANGED employees
    /\ UNCHANGED <<files, req, pre>>

\* lines 121-123
apply_employee_leave_save(p) ==
    /\ pc[p] = "apply_save"
    /\ LEAVE_FILE' = save_data(LEAVE_FILE, leaves[p])
    /\ Return(p, Ok("Leave applied, pending approval"))
    /\ UNCHANGED <<EMPLOYEE_FILE, req, pre>>

---------------------------------------------------------------------------
(* GET /employees/{emp_id}/leaves *)

fetch_employee_leaves(p, emp_id) ==
    /\ Enter(p, Req("list_for_employee", emp_id, "", <<>>))
    /\ IF load_data_raises(LEAVE_FILE)
       THEN Return(p, InternalServerError)
       ELSE Return(p, Listing("", emp_leaves(load_data(LEAVE_FILE), emp_id)))
    /\ UNCHANGED files

---------------------------------------------------------------------------
(* PUT /leaves/{leave_id} *)

\* line 143
update_leave_status_info(p, leave_id, status) ==
    /\ Enter(p, Req("update_status", leave_id, status, <<>>))
    /\ IF load_data_raises(LEAVE_FILE)
       THEN Return(p, InternalServerError)
       ELSE /\ leaves' = [leaves EXCEPT ![p] = load_data(LEAVE_FILE)]
            /\ Goto(p, "update_check")
            /\ UNCHANGED employees
    /\ UNCHANGED files

\* lines 144-157: load the employees, find the leave, then its owner, then
\* overwrite the status on the local list
update_leave_status_info_check(p) ==
    /\ pc[p] = "update_check"
    /\ LET loaded == load_data(EMPLOYEE_FILE)
           i == first_leave(leaves[p], req[p].id) IN
        IF load_data_raises(EMPLOYEE_FILE)
        THEN Return(p, InternalServerError)
        ELSE IF i = 0
        THEN Return(p, LeaveNotFound)
        ELSE IF first_emp(loaded, leaves[p][i].employee_id) = 0
        THEN Return(p, OwningEmployeeNotFound)
        ELSE /\ Goto(p, "update_save")
             /\ employees' = [employees EXCEPT ![p] = loaded]
             /\ leaves' = [leaves EXCEPT ![p] = set_status(leaves[p], i, req[p].status)]
    /\ UNCHANGED <<files, req, pre>>

\* an approval also takes a day from the owner's "sick" count
update_leave_status_info_save_deducting(p) ==
    /\ pc[p] = "update_save"
    /\ LEAVE_FILE' = save_data(LEAVE_FILE, leaves[p])
    /\ LET owner == leaves[p][first_leave(leaves[p], req[p].id)].employee_id IN
        EMPLOYEE_FILE' =
            IF req[p].status = "Approved"
            THEN save_data(EMPLOYEE_FILE,
                    [k \in 1..Len(employees[p]) |->
                        IF employees[p][k].emp_id = owner
                        THEN [employees[p][k] EXCEPT !.leaves.sick = @ - 1]
                        ELSE employees[p][k]])
            ELSE EMPLOYEE_FILE
    /\ Return(p, Ok(req[p].status))
    /\ UNCHANGED <<req, pre>>

\* lines 158-161
update_leave_status_info_save(p) ==
    /\ pc[p] = "update_save"
    /\ LEAVE_FILE' = save_data(LEAVE_FILE, leaves[p])
    /\ Return(p, Ok(req[p].status))
    /\ UNCHANGED <<EMPLOYEE_FILE, req, pre>>

---------------------------------------------------------------------------
(* Specifications *)

\* a request arrives at worker p
Call(p, leave_inputs) ==
    \/ \E employee \in EmployeeInputs : add_employee(p, employee)
    \/ fetch_all_employees(p)
    \/ \E emp_id \in EmpIds : fetch_employee_by_id(p, emp_id)
    \/ \E leave \in leave_inputs : apply_employee_leave(p, leave)
    \/ \E emp_id \in EmpIds : fetch_employee_leaves(p, emp_id)
    \/ \E leave_id \in LeaveIds, status \in Statuses :
          update_leave_status_info(p, leave_id, status)

\* worker p resumes the handler it is in
Resume(p) ==
    \/ add_employee_save(p)
    \/ apply_employee_leave_load(p)
    \/ apply_employee_leave_save(p)
    \/ update_leave_status_info_check(p)
    \/ update_leave_status_info_save(p)

\* one worker process: its handlers never suspend between their file accesses
\* (load_data and save_data await nothing), so it serves one call at a time
Next == (Call(Main, LeaveInputs) \/ Resume(Main)) /\ UNCHANGED calls

Spec == Init /\ [][Next]_vars

\* calls of different workers interleave at their file accesses
ConcNext ==
    \E p \in Procs :
        \/ calls < MaxCalls /\ calls' = calls + 1 /\ Call(p, PlainLeaveInputs)
        \/ Resume(p) /\ UNCHANGED calls

ConcSpec == Init /\ [][ConcNext]_vars

\* Between two calls of the single worker (the last response is delivered, the
\* worker idle) a file may be deleted or overwritten with text that is not
\* JSON: the two conditions load_data tests for.
storage_fault ==
    /\ Free(Main)
    /\ \/ EMPLOYEE_FILE.state = "ok" /\ EMPLOYEE_FILE' = Missing /\ UNCHANGED LEAVE_FILE
       \/ EMPLOYEE_FILE.state # "malformed" /\ EMPLOYEE_FILE' = Malformed(EMPLOYEE_FILE)
             /\ UNCHANGED LEAVE_FILE
       \/ LEAVE_FILE.state = "ok" /\ LEAVE_FILE' = Missing /\ UNCHANGED EMPLOYEE_FILE
       \/ LEAVE_FILE.state # "malformed" /\ LEAVE_FILE' = Malformed(LEAVE_FILE)
             /\ UNCHANGED EMPLOYEE_FILE
    /\ pc' = [pc EXCEPT ![Main] = "idle"]
    /\ req' = [req EXCEPT ![Main] = NoReq]
    /\ resp' = [resp EXCEPT ![Main] = NoResp]
    /\ pre' = <<EMPLOYEE_FILE', LEAVE_FILE'>>
    /\ UNCHANGED <<employees, leaves, calls>>

FaultNext ==
    \/ (Call(Main, PlainLeaveInputs) \/ Resume(Main)) /\ UNCHANGED calls
    \/ storage_fault

FaultSpec == Init /\ [][FaultNext]_vars

\* ... or overwritten with bytes that are no text at all
storage_damage ==
    /\ Free(Main)
    /\ \/ EMPLOYEE_FILE.state # "undecodable" /\ EMPLOYEE_FILE' = Undecodable
             /\ UNCHANGED LEAVE_FILE
       \/ LEAVE_FILE.state # "undecodable" /\ LEAVE_FILE' = Undecodable
             /\ UNCHANGED EMPLOYEE_FILE
    /\ pc' = [pc EXCEPT ![Main] = "idle"]
    /\ req' = [req EXCEPT ![Main] = NoReq]
    /\ resp' = [resp EXCEPT ![Main] = NoResp]
    /\ pre' = <<EMPLOYEE_FILE', LEAVE_FILE'>>
    /\ UNCHANGED <<employees, leaves, calls>>

DamageNext == FaultNext \/ storage_damage

DamageSpec == Init /\ [][DamageNext]_vars


---------------------------------------------------------------------------
(* What a finished call of the single worker saw and left behind *)

Finished(op) == pc[Main] = "done" /\ req[Main].op = op
emps_before == load_data(pre[1])
leaves_before == load_data(pre[2])
emps_now == load_data(EMPLOYEE_FILE)
leaves_now == load_data(LEAVE_FILE)

\* C1: create(employee) on a store that already holds a record with the same
\* emp_id raises 400 "Employee ID already exists." and writes nothing: both
\* files are exactly as the call found them, whatever the other fields are.
C1_DuplicateCreateWritesNothing ==
    (/\ Finished("create")
     /\ \E i \in 1..Len(emps_before) : emps_before[i].emp_id = req[Main].id)
    => /\ resp[Main] = DuplicateIdentifier
       /\ resp[Main].status_code = 400
       /\ EMPLOYEE_FILE = pre[1]
       /\ LEAVE_FILE = pre[2]

\* a duplicate create was refused although the stored record with that
\* emp_id differs from the request in every other field
C1_Witness ==
    /\ Finished("create")
    /\ resp[Main] = DuplicateIdentifier
    /\ \E i \in 1..Len(emps_now) :
          /\ emps_now[i].emp_id = req[Main].id
          /\ emps_now[i].emp_name # req[Main].body[1].emp_name
          /\ emps_now[i].mail_id # req[Main].body[1].mail_id
          /\ emps_now[i].leaves # req[Main].body[1].leaves
    /\ Len(emps_now) = 2
    /\ Len(leaves_now) > 0

\* C2: apply(leave) whose employee_id is the emp_id of no stored employee
\* raises 404 "Employee not found." and leaves the leaves file as it was.
C2_ApplyUnknownEmployeeWritesNothing ==
    (/\ Finished("apply")
     /\ \A i \in 1..Len(emps_before) :
            emps_before[i].emp_id # req[Main].body[1].employee_id)
    => /\ resp[Main] = EmployeeNotFound
       /\ resp[Main].status_code = 404
       /\ LEAVE_FILE = pre[2]
       /\ Len(leaves_now) = Len(leaves_before)

\* an apply for a never-created employee was refused on a store that holds
\* another employee and a leave
C2_Witness ==
    /\ Finished("apply")
    /\ resp[Main] = EmployeeNotFound
    /\ Len(emps_now) = 1
    /\ Len(leaves_now) > 0

\* the leave a status update addresses: the first record with that leave_id
Addressed(lvs, leave_id, i) ==
    /\ i \in 1..Len(lvs)
    /\ lvs[i].leave_id = leave_id
    /\ \A j \in 1..(i-1) : lvs[j].leave_id # leave_id

\* C3: update_status raises "Leave not found." whenever no leave has the
\* leave_id, whatever the employees file holds; it raises "Employee not found
\* for this leave." only when the leave exists and no employee has its
\* employee_id; a failed update_status leaves both files as it found them.
C3_UpdateFailuresWriteNothing ==
    Finished("update_status") =>
        /\ (\A i \in 1..Len(leaves_before) : leaves_before[i].leave_id # req[Main].id)
              => resp[Main] = LeaveNotFound
        /\ resp[Main] = OwningEmployeeNotFound
              => \E i \in 1..Len(leaves_before) :
                    /\ Addressed(leaves_before, req[Main].id, i)
                    /\ \A k \in 1..Len(emps_before) :
                          emps_before[k].emp_id # leaves_before[i].employee_id
        /\ resp[Main].status_code # 200
              => /\ resp[Main].status_code = 404
                 /\ EMPLOYEE_FILE = pre[1]
                 /\ LEAVE_FILE = pre[2]

\* "Leave not found." was raised although the store holds a leave whose owner
\* is gone, so that the owner check would have failed as well
C3_Witness ==
    /\ Finished("update_status")
    /\ resp[Main] = LeaveNotFound
    /\ Len(leaves_now) > 0
    /\ \E i \in 1..Len(leaves_now) :
          \A k \in 1..Len(emps_now) : emps_now[k].emp_id # leaves_now[i].employee_id

\* C4: a successful update_status rewrites the leaves file with the same
\* records in the same order, the addressed record differing from before in
\* leave_status alone and every other record, also one with the same
\* leave_id, unchanged.
C4_UpdateChangesOnlyStatus ==
    (Finished("update_status") /\ resp[Main].status_code = 200)
    => /\ Len(leaves_now) = Len(leaves_before)
       /\ \E i \in 1..Len(leaves_before) :
             /\ Addressed(leaves_before, req[Main].id, i)
             /\ leaves_now[i].leave_id = leaves_before[i].leave_id
             /\ leaves_now[i].employee_id = leaves_before[i].employee_id
             /\ leaves_now[i].leave_type = leaves_before[i].leave_type
             /\ leaves_now[i].from_date = leaves_before[i].from_date
             /\ leaves_now[i].to_date = leaves_before[i].to_date
             /\ leaves_now[i].leave_status = req[Main].status
             /\ \A j \in 1..Len(leaves_before) :
                   j # i => leaves_now[j] = leaves_before[j]

\* a status was changed while a later record carries the same leave_id and
\* keeps its own status
C4_Witness ==
    /\ Finished("update_status")
    /\ resp[Main].status_code = 200
    /\ Len(leaves_now) = 2
    /\ leaves_now[1].leave_id = leaves_now[2].leave_id
    /\ leaves_now[1].leave_status = req[Main].status
    /\ leaves_before[1].leave_status # req[Main].status
    /\ leaves_now[2].leave_status # req[Main].status

\* C5: list_for_employee(id) returns the stored leaves whose employee_id is
\* id, in stored order, and total_leaves is their number; it never fails.
C5_ListIsStoredSubsequence ==
    Finished("list_for_employee") =>
        LET Mine(l) == l.employee_id = req[Main].id IN
        /\ resp[Main].status_code = 200
        /\ resp[Main].items = SelectSeq(leaves_now, Mine)
        /\ resp[Main].total = Len(SelectSeq(leaves_now, Mine))
        /\ files = pre

\* a listing that skips the other employee's leave
C5_Witness ==
    /\ Finished("list_for_employee")
    /\ resp[Main].total = 1
    /\ Len(leaves_now) = 2
    /\ leaves_now[1].employee_id # req[Main].id
    /\ resp[Main].items = <<leaves_now[2]>>

---------------------------------------------------------------------------
(* Workers side by side *)

\* C6: no two records of the employees file share an emp_id, in every state
\* the workers reach, also when their creates interleave between load and save.
C6_EmpIdsUnique ==
    \A i, j \in 1..Len(emps_now) :
        i # j => emps_now[i].emp_id # emps_now[j].emp_id

\* two workers raced to create the same emp_id, both were told it was
\* created, and the file holds that emp_id once beside another employee
C6_Witness ==
    \E p, q \in Procs :
        /\ p # q
        /\ pc[p] = "done" /\ req[p].op = "create" /\ resp[p].status_code = 200
        /\ pc[q] = "done" /\ req[q].op = "create" /\ resp[q].status_code = 200
        /\ req[p].id = req[q].id
        /\ Len(emps_now) = 2
        /\ \E i \in 1..2 : emps_now[i].emp_id = req[p].id

\* C7: a writer's save replaces the whole collection by the list the writer
\* built from what it had loaded, and the writer returns success: whatever
\* another worker saved in between is not in the file any more.
C7_LastWriterReplacesCollection ==
    [][\A p \in Procs :
         /\ (pc[p] = "add_save" /\ pc'[p] = "done")
               => /\ load_data(EMPLOYEE_FILE') = employees[p]
                  /\ resp'[p].status_code = 200
         /\ (pc[p] \in {"apply_save", "update_save"} /\ pc'[p] = "done")
               => /\ load_data(LEAVE_FILE') = leaves[p]
                  /\ resp'[p].status_code = 200]_vars

\* two creates with different emp_ids both returned success and the file
\* holds one employee only
C7_Witness ==
    \E p, q \in Procs :
        /\ p # q
        /\ pc[p] = "done" /\ req[p].op = "create" /\ resp[p].status_code = 200
        /\ pc[q] = "done" /\ req[q].op = "create" /\ resp[q].status_code = 200
        /\ req[p].id # req[q].id
        /\ Len(emps_now) = 1
        /\ emps_now[1].emp_id = req[q].id

\* C8: right after a successful apply the appended record has leave_status
\* "Pending", whatever the request carried.
C8_AppliedLeaveIsPending ==
    (Finished("apply") /\ resp[Main].status_code = 200)
    => leaves_now[Len(leaves_now)].leave_status = "Pending"

\* C9: no two records of the leaves file share a leave_id.
C9_LeaveIdsUnique ==
    \A i, j \in 1..Len(leaves_now) :
        i # j => leaves_now[i].leave_id # leaves_now[j].leave_id

\* C10: update_status on a stored leave whose owner is stored succeeds for
\* every status string and every prior status and stores the string; a
\* list_for_employee of the owner that follows it shows the leave with that
\* status.
C10_UpdateAcceptsAnyStatus ==
    [][/\ (/\ pc'[Main] = "done" /\ req'[Main].op = "update_status"
           /\ \E i \in 1..Len(leaves_before') :
                 /\ Addressed(leaves_before', req'[Main].id, i)
                 /\ \E k \in 1..Len(emps_before') :
                       emps_before'[k].emp_id = leaves_before'[i].employee_id)
          => /\ resp'[Main].status_code = 200
             /\ \E i \in 1..Len(leaves_now') :
                   /\ Addressed(leaves_now', req'[Main].id, i)
                   /\ leaves_now'[i].leave_status = req'[Main].status
       /\ (/\ Finished("update_status") /\ resp[Main].status_code = 200
           /\ pc'[Main] = "done" /\ req'[Main].op = "list_for_employee"
           /\ \E i \in 1..Len(leaves_now) :
                 /\ Addressed(leaves_now, req[Main].id, i)
                 /\ leaves_now[i].employee_id = req'[Main].id)
          => \E k \in 1..Len(resp'[Main].items) :
                /\ Addressed(resp'[Main].items, req[Main].id, k)
                /\ resp'[Main].items[k].leave_status = req[Main].status]_vars

\* the owner's listing is one leave whose status is a string that only an
\* update_status can have put there
C10_Witness ==
    /\ Finished("list_for_employee")
    /\ resp[Main].total = 1
    /\ resp[Main].items[1].leave_status = "xyz"
    /\ Len(leaves_now) = 1

---------------------------------------------------------------------------
(* Reads *)

StoredIn(emps, emp_id) == \E i \in 1..Len(emps) : emps[i].emp_id = emp_id
Stored(emp_id) == StoredIn(emps_now, emp_id)

\* C11: fetch_by_id(id) raises 404 "Employee not found." when no stored
\* employee has emp_id id and otherwise returns the stored record with that
\* emp_id; an emp_id is stored from the step in which a create of it returns
\* success, and stays stored, so the fetch succeeds exactly for the ids
\* created before.
C11_FetchFindsWhatWasCreated ==
    [][/\ (pc'[Main] = "done" /\ req'[Main].op = "fetch_by_id")
          => /\ ~StoredIn(emps_now', req'[Main].id) => resp'[Main] = EmployeeNotFound
             /\ StoredIn(emps_now', req'[Main].id)
                   => /\ resp'[Main].status_code = 200
                      /\ Len(resp'[Main].items) = 1
                      /\ resp'[Main].items[1].emp_id = req'[Main].id
                      /\ \E i \in 1..Len(emps_now') :
                            emps_now'[i] = resp'[Main].items[1]
       /\ \A id \in EmpIds :
             /\ Stored(id) => Stored(id)'
             /\ (~Stored(id) /\ Stored(id)')
                   => /\ pc[Main] = "add_save" /\ pc'[Main] = "done"
                      /\ req'[Main].id = id
                      /\ resp'[Main].status_code = 200
       /\ (pc[Main] = "add_save" /\ pc'[Main] = "done")
             => Stored(req[Main].id)']_vars

\* the second of two stored employees was fetched
C11_Witness ==
    /\ Finished("fetch_by_id")
    /\ resp[Main].status_code = 200
    /\ Len(emps_now) = 2
    /\ resp[Main].items = <<emps_now[2]>>

ReadOps == {"list_all", "fetch_by_id", "list_for_employee"}

\* C12: list_all, fetch_by_id and list_for_employee write nothing; list_all
\* returns the whole employees sequence in stored order with total_employees
\* its length (0 and the empty sequence on an empty store); list_all or
\* list_for_employee(id) repeated with no write in between returns the same.
C12_ReadsWriteNothing ==
    [][/\ (pc'[Main] = "done" /\ req'[Main].op \in ReadOps)
          => /\ EMPLOYEE_FILE' = pre'[1] /\ LEAVE_FILE' = pre'[2]
             /\ UNCHANGED files
       /\ (pc'[Main] = "done" /\ req'[Main].op = "list_all")
          => /\ resp'[Main].status_code = 200
             /\ resp'[Main].items = emps_now'
             /\ resp'[Main].total = Len(emps_now')
       /\ (/\ pc[Main] = "done" /\ req[Main].op \in {"list_all", "list_for_employee"}
           /\ pc'[Main] = "done" /\ req'[Main] = req[Main])
          => resp'[Main] = resp[Main]]_vars

\* a listing of two employees, taken while leaves are stored
C12_Witness ==
    /\ Finished("list_all")
    /\ resp[Main].total = 2
    /\ resp[Main].items = emps_now
    /\ Len(leaves_now) > 0

---------------------------------------------------------------------------
(* Durability and storage faults *)

Unreadable(file) == file.state \in {"missing", "malformed", "undecodable"}

\* C14: a missing or malformed file counts as an empty collection and never
\* as an error.  With employees.json unreadable: list_all returns count 0,
\* fetch_by_id raises "Employee not found.", apply raises "Employee not
\* found.", create succeeds and the file then holds the new record alone.
\* With leave.json unreadable: list_for_employee returns count 0,
\* update_status raises "Leave not found." and writes nothing, and a
\* successful apply leaves the file holding the new record alone.
C14_UnreadableStorageIsEmpty ==
    /\ (pc[Main] = "done" /\ Unreadable(pre[1])) =>
          /\ req[Main].op = "list_all"
                => resp[Main] = Listing("", <<>>) /\ resp[Main].total = 0
          /\ req[Main].op = "fetch_by_id" => resp[Main] = EmployeeNotFound
          /\ req[Main].op = "apply"
                => resp[Main] = EmployeeNotFound /\ files = pre
          /\ req[Main].op = "create"
                => /\ resp[Main].status_code = 200
                   /\ EMPLOYEE_FILE = [state |-> "ok", data |-> <<req[Main].body[1]>>]
                   /\ LEAVE_FILE = pre[2]
    /\ (pc[Main] = "done" /\ Unreadable(pre[2])) =>
          /\ req[Main].op = "list_for_employee"
                => resp[Main].status_code = 200 /\ resp[Main].total = 0
                   /\ resp[Main].items = <<>>
          /\ req[Main].op = "update_status"
                => resp[Main] = LeaveNotFound /\ files = pre
          /\ (req[Main].op = "apply" /\ resp[Main].status_code = 200)
                => /\ LEAVE_FILE = [state |-> "ok", data |-> <<req[Main].body[1]>>]
                   /\ EMPLOYEE_FILE = pre[1]

---------------------------------------------------------------------------
(* Referential integrity *)

\* every stored leave has a stored owner
OwnersStored ==
    \A i \in 1..Len(leaves_now) :
        \E k \in 1..Len(emps_now) : emps_now[k].emp_id = leaves_now[i].employee_id

\* C15: with intact storage and one call at a time, every stored leave has an
\* employee_id that is the emp_id of a stored employee, and no update_status
\* ends with "Employee not found for this leave.".
C15_OwnersStoredSequentially ==
    /\ OwnersStored
    /\ resp[Main] # OwningEmployeeNotFound

\* leaves of two different employees are stored and a status update went
\* through its owner check
C15_Witness ==
    /\ Finished("update_status")
    /\ resp[Main].status_code = 200
    /\ Len(leaves_now) = 2
    /\ leaves_now[1].employee_id # leaves_now[2].employee_id

\* C16: with interleaved workers a stored leave can lose its owner although
\* its apply found the owner among the employees it loaded (the owner's
\* record is dropped by another create's rewrite), and an update_status on
\* such a leave ends with "Employee not found for this leave." and writes
\* nothing.
C16_OwnerLostOnlyAfterCheck ==
    [][\A p \in Procs :
         /\ (pc[p] = "apply_save" /\ pc'[p] = "done")
               => \E k \in 1..Len(employees[p]) :
                     employees[p][k].emp_id = req[p].body[1].employee_id
         /\ (pc[p] = "update_check" /\ pc'[p] = "done"
               /\ resp'[p] = OwningEmployeeNotFound)
               => /\ \E i \in 1..Len(leaves[p]) :
                        /\ Addressed(leaves[p], req[p].id, i)
                        /\ \A k \in 1..Len(emps_now) :
                              emps_now[k].emp_id # leaves[p][i].employee_id
                  /\ UNCHANGED files]_vars

\* two creates and an apply have returned success, the stored leave has no
\* stored owner, and an update_status on it was refused for that reason
C16_Witness ==
    \E p \in Procs :
        /\ pc[p] = "done" /\ req[p].op = "update_status"
        /\ resp[p] = OwningEmployeeNotFound
        /\ \E i \in 1..Len(leaves_now) :
              /\ Addressed(leaves_now, req[p].id, i)
              /\ \A k \in 1..Len(emps_now) :
                    emps_now[k].emp_id # leaves_now[i].employee_id
        /\ Len(emps_now) = 1
        /\ calls = 4

---------------------------------------------------------------------------
(* Frames and order *)

SameButStatus(a, b) ==
    /\ a.leave_id = b.leave_id
    /\ a.employee_id = b.employee_id
    /\ a.leave_type = b.leave_type
    /\ a.from_date = b.from_date
    /\ a.to_date = b.to_date

\* C18: with one call at a time a successful create leaves the employees
\* sequence as before with the new record appended; an apply for a stored
\* employee succeeds whatever its leave_type, its dates and the leave_ids
\* already stored, and leaves the leaves sequence as before with the new
\* record appended; no call removes or reorders a record.
C18_AppendOnly ==
    pc[Main] = "done" =>
        /\ (req[Main].op = "create" /\ resp[Main].status_code = 200)
              => /\ emps_now = emps_before \o <<req[Main].body[1]>>
                 /\ Len(emps_now) = Len(emps_before) + 1
        /\ (req[Main].op = "apply"
              /\ \E k \in 1..Len(emps_before) :
                    emps_before[k].emp_id = req[Main].body[1].employee_id)
              => /\ resp[Main].status_code = 200
                 /\ leaves_now = leaves_before \o <<req[Main].body[1]>>
                 /\ Len(leaves_now) = Len(leaves_before) + 1
        /\ Len(emps_now) >= Len(emps_before)
        /\ \A i \in 1..Len(emps_before) : emps_now[i] = emps_before[i]
        /\ Len(leaves_now) >= Len(leaves_before)
        /\ \A i \in 1..Len(leaves_before) :
              SameButStatus(leaves_now[i], leaves_before[i])

\* a leave of a type the owner has no count for, ending before it starts and
\* carrying a leave_id that is stored already, was appended
C18_Witness ==
    /\ Finished("apply")
    /\ resp[Main].status_code = 200
    /\ Len(leaves_now) = 2
    /\ leaves_now[2] = req[Main].body[1]
    /\ leaves_now[2].leave_type = "vacation"
    /\ leaves_now[2].from_date = "2024-03-05" /\ leaves_now[2].to_date = "2024-03-01"
    /\ leaves_now[1].leave_id = leaves_now[2].leave_id
    /\ leaves_now[1].leave_type # leaves_now[2].leave_type

====
